---- MODULE Spec2Model ----
(***************************************************************************)
(* Sistema de Mapeamento de Estabelecimentos (mapeamento.py) and its       *)
(* Streamlit dashboard (interface_web.py).                                 *)
(*                                                                         *)
(* A Python str is a sequence of one-character strings, so that lower()    *)
(* and the `in` substring test are computed, not looked up.  A Python      *)
(* value carries its type: [t |-> "NoneType"], [t |-> "bool", v |-> b],    *)
(* [t |-> "int", v |-> n], [t |-> "str", v |-> s], [t |-> "list", v |-> l].*)
(* The directory of the backing file is assumed to exist, so open(.., "w") *)
(* succeeds.                                                               *)
(***************************************************************************)
EXTENDS Integers, Sequences, FiniteSets, TLC

VARIABLES
    estabelecimentos,   \* [Procs -> Seq(Estabelecimento)]: self.estabelecimentos
    construido,         \* [Procs -> BOOLEAN]: the process holds a SistemaMapeamento
    arquivo,            \* the backing file self.arquivo_dados: absent or a JSON text
    arquivo_csv,        \* the CSV export file: absent or its rows
    relogio,            \* the last reading of datetime.now()
    retorno             \* the last call: its name, process, argument, result, stdout

vars == <<estabelecimentos, construido, arquivo, arquivo_csv, relogio, retorno>>

\* ---------------------------------------------------------------- bounds
MaxEst == 2
MaxRelogio == 2
MaxAmostra == 3

Procs == {1, 2}

\* ---------------------------------------------------------------- Python values
PyNone == [t |-> "NoneType"]
PyBool(b) == [t |-> "bool", v |-> b]
PyInt(n) == [t |-> "int", v |-> n]
PyStr(s) == [t |-> "str", v |-> s]
PyList(l) == [t |-> "list", v |-> l]

\* Python truth value testing, as used by `not x` and `x or None`
Truthy(x) ==
    CASE x.t = "NoneType" -> FALSE
      [] x.t = "bool" -> x.v
      [] x.t = "int" -> x.v # 0
      [] x.t = "str" -> x.v # <<>>
      [] x.t = "list" -> x.v # <<>>

Range(s) == {s[k] : k \in 1..Len(s)}

\* str.lower() on the characters the model's strings are written with
Maiusculas == <<"A", "B", "C", "F", "N", "R", "É">>
Minusculas == <<"a", "b", "c", "f", "n", "r", "é">>

LowerChar(c) ==
    IF \E k \in 1..Len(Maiusculas) : Maiusculas[k] = c
    THEN Minusculas[CHOOSE k \in 1..Len(Maiusculas) : Maiusculas[k] = c]
    ELSE c

lower(s) == [k \in 1..Len(s) |-> LowerChar(s[k])]

\* the str operator `sub in s`
Contem(sub, s) ==
    \E d \in 0..(Len(s) - Len(sub)) : SubSeq(s, d + 1, d + Len(sub)) = sub

\* str.strip(): leading and trailing blanks removed
RECURSIVE lstrip(_)
lstrip(s) == IF s # <<>> /\ Head(s) = " " THEN lstrip(Tail(s)) ELSE s

RECURSIVE rstrip(_)
rstrip(s) ==
    IF s # <<>> /\ s[Len(s)] = " " THEN rstrip(SubSeq(s, 1, Len(s) - 1)) ELSE s

strip(s) == rstrip(lstrip(s))

\* ---------------------------------------------------------------- literals
NAO_CONTATADO == <<"N", "ã", "o", " ", "c", "o", "n", "t", "a", "t", "a", "d", "o">>
CONTATADO == <<"C", "o", "n", "t", "a", "t", "a", "d", "o">>
CAFE == <<"C", "a", "f", "é">>
BAR == <<"B", "a", "r">>
ALTO == <<"A", "l", "t", "o">>
BASICA == <<"r", "e", "d", "e", "s">>

\* datetime.now().strftime("%Y-%m-%d %H:%M:%S") at clock reading n (n < 10);
\* the readings differ in the seconds only
Digitos == <<"0", "1", "2", "3", "4", "5", "6", "7", "8", "9">>
strftime(n) ==
    <<"2", "0", "2", "5", "-", "0", "1", "-", "0", "1", " ",
      "0", "0", ":", "0", "0", ":", "0", Digitos[n + 1]>>

\* ---------------------------------------------------------------- Estabelecimento
\* the dataclass fields in declaration order
Campos ==
    <<"nome", "endereco", "bairro", "tipo_negocio",
      "tem_site", "url_site", "tem_instagram", "url_instagram",
      "tem_facebook", "url_facebook", "tem_google_business",
      "aparencia_estabelecimento", "movimento_aparente",
      "nivel_presenca_digital", "precisa_site", "precisa_sistema_gestao",
      "precisa_marketing_digital", "precisa_sistema_reservas",
      "precisa_ecommerce", "oportunidades", "observacoes",
      "potencial_cliente", "prioridade_contato",
      "data_mapeamento", "status_contato">>

\* the fields' default values; the four positional fields have none
Padroes ==
    [tem_site |-> PyBool(FALSE), url_site |-> PyNone,
     tem_instagram |-> PyBool(FALSE), url_instagram |-> PyNone,
     tem_facebook |-> PyBool(FALSE), url_facebook |-> PyNone,
     tem_google_business |-> PyBool(FALSE),
     aparencia_estabelecimento |-> PyNone, movimento_aparente |-> PyNone,
     nivel_presenca_digital |-> PyNone,
     precisa_site |-> PyBool(FALSE), precisa_sistema_gestao |-> PyBool(FALSE),
     precisa_marketing_digital |-> PyBool(FALSE),
     precisa_sistema_reservas |-> PyBool(FALSE),
     precisa_ecommerce |-> PyBool(FALSE),
     oportunidades |-> PyNone, observacoes |-> PyStr(<<>>),
     potencial_cliente |-> PyNone, prioridade_contato |-> PyInt(0),
     data_mapeamento |-> PyStr(<<>>), status_contato |-> PyStr(NAO_CONTATADO)]

\* mutant of post_init: the timestamp is set on every construction
post_init_sempre_agora(e, agora) ==
    [e EXCEPT
        !.oportunidades = IF @.t = "NoneType" THEN PyList(<<>>) ELSE @,
        !.data_mapeamento = PyStr(strftime(agora))]

\* Estabelecimento.__post_init__ at clock reading agora
post_init(e, agora) ==
    [e EXCEPT
        !.oportunidades = IF @.t = "NoneType" THEN PyList(<<>>) ELSE @,
        !.data_mapeamento = IF ~Truthy(@) THEN PyStr(strftime(agora)) ELSE @]

\* whether constructing from kwargs reads the clock
LeRelogio(kwargs) == ~Truthy((kwargs @@ Padroes).data_mapeamento)

\* Estabelecimento(**kwargs): the generated __init__, then __post_init__
Estabelecimento(kwargs, agora) == post_init(kwargs @@ Padroes, agora)

\* ---------------------------------------------------------------- JSON
\* json.dump of one Python value: the JSON value written
json_dump_valor(x) ==
    CASE x.t = "NoneType" -> [j |-> "null"]
      [] x.t = "bool" -> [j |-> IF x.v THEN "true" ELSE "false"]
      [] x.t = "int" -> [j |-> "number", v |-> x.v]
      [] x.t = "str" -> [j |-> "string", v |-> x.v]
      [] x.t = "list" ->
            [j |-> "array",
             v |-> [k \in 1..Len(x.v) |-> [j |-> "string", v |-> x.v[k].v]]]

\* json.load of one JSON value: the Python value built
json_load_valor(y) ==
    CASE y.j = "null" -> PyNone
      [] y.j = "true" -> PyBool(TRUE)
      [] y.j = "false" -> PyBool(FALSE)
      [] y.j = "number" -> PyInt(y.v)
      [] y.j = "string" -> PyStr(y.v)
      [] y.j = "array" -> PyList([k \in 1..Len(y.v) |-> PyStr(y.v[k].v)])

\* asdict(e) written as a JSON object: its keys in field order, and the
\* value of each
NomesDosCampos == Range(Campos)

json_dump_objeto(e) ==
    [chaves |-> Campos,
     membros |-> [c \in NomesDosCampos |-> json_dump_valor(e[c])]]

\* json.dump([asdict(e) for e in ests]): a JSON array of objects
json_dump(ests) == [k \in 1..Len(ests) |-> json_dump_objeto(ests[k])]

\* a JSON object read back as a dict
json_load_objeto(obj) ==
    [c \in DOMAIN obj.membros |-> json_load_valor(obj.membros[c])]

\* the file's two states
Ausente == [existe |-> FALSE]
Conteudo(texto) == [existe |-> TRUE, texto |-> texto]

\* ---------------------------------------------------------------- SistemaMapeamento
\* open(self.arquivo_dados, "r"): the exception it raises, "" for none
abrir_leitura(arq) == IF arq.existe THEN "" ELSE "FileNotFoundError"

\* mutant of carregar_dados: no except clause
carregar_dados_sem_except(arq, agora) ==
    IF abrir_leitura(arq) = ""
    THEN [ests |-> [k \in 1..Len(arq.texto) |->
                        Estabelecimento(json_load_objeto(arq.texto[k]), agora)],
          saida |-> "carregados", excecao |-> ""]
    ELSE [ests |-> <<>>, saida |-> "", excecao |-> abrir_leitura(arq)]

\* carregar_dados: the collection it leaves in self.estabelecimentos, what it
\* prints, and the exception that leaves it ("" for none); the except clause
\* handles FileNotFoundError
carregar_dados(arq, agora) ==
    IF abrir_leitura(arq) = ""
    THEN [ests |-> [k \in 1..Len(arq.texto) |->
                        Estabelecimento(json_load_objeto(arq.texto[k]), agora)],
          saida |-> "carregados", excecao |-> ""]
    ELSE IF abrir_leitura(arq) = "FileNotFoundError"
    THEN [ests |-> <<>>, saida |-> "nenhum dado anterior", excecao |-> ""]
    ELSE [ests |-> <<>>, saida |-> "", excecao |-> abrir_leitura(arq)]

\* mutant of salvar_dados: the file is opened with "a"
salvar_dados_anexando(ests) ==
    IF arquivo.existe THEN Conteudo(arquivo.texto \o json_dump(ests))
    ELSE Conteudo(json_dump(ests))

\* salvar_dados: the file it leaves
salvar_dados(ests) == Conteudo(json_dump(ests))

\* mutant of adicionar_estabelecimento: insert(0, e)
adicionar_no_inicio(ests, e) == <<e>> \o ests

\* adicionar_estabelecimento: self.estabelecimentos.append
adicionar_estabelecimento(ests, e) == Append(ests, e)

\* the list comprehension [e for e in ests if e.<campo> ...] as the positions kept
RECURSIVE Posicoes(_, _)
Posicoes(n, S) ==
    IF n = 0 THEN <<>>
    ELSE IF n \in S THEN Append(Posicoes(n - 1, S), n) ELSE Posicoes(n - 1, S)

Em(ests, pos) == [k \in 1..Len(pos) |-> ests[pos[k]]]

\* mutant of buscar_por_nome: `nome.lower() in e.nome`
buscar_por_nome_sem_lower(ests, nome) ==
    Em(ests, Posicoes(Len(ests),
        {k \in 1..Len(ests) : Contem(lower(nome), ests[k].nome.v)}))

buscar_por_nome(ests, nome) ==
    Em(ests, Posicoes(Len(ests),
        {k \in 1..Len(ests) : Contem(lower(nome), lower(ests[k].nome.v))}))

buscar_por_bairro(ests, bairro) ==
    Em(ests, Posicoes(Len(ests),
        {k \in 1..Len(ests) : Contem(lower(bairro), lower(ests[k].bairro.v))}))

buscar_por_tipo(ests, tipo) ==
    Em(ests, Posicoes(Len(ests),
        {k \in 1..Len(ests) : Contem(lower(tipo), lower(ests[k].tipo_negocio.v))}))

\* mutant of filtrar_sem_site: `if e.url_site is None`
filtrar_sem_url(ests) ==
    Em(ests, Posicoes(Len(ests), {k \in 1..Len(ests) : ests[k].url_site = PyNone}))

filtrar_sem_site(ests) ==
    Em(ests, Posicoes(Len(ests), {k \in 1..Len(ests) : ~Truthy(ests[k].tem_site)}))

filtrar_por_potencial(ests, potencial) ==
    Em(ests, Posicoes(Len(ests),
        {k \in 1..Len(ests) : ests[k].potencial_cliente = potencial}))

\* mutant of InserirDesc: the reversal of an ascending sort, which turns ties
\* around
InserirDesc_iguais_invertidos(ord, p, ests) ==
    LET n == Cardinality({k \in 1..Len(ord) :
                ests[ord[k]].prioridade_contato.v > ests[p].prioridade_contato.v})
    IN  SubSeq(ord, 1, n) \o <<p>> \o SubSeq(ord, n + 1, Len(ord))

\* sorted(.., key=lambda x: x.prioridade_contato, reverse=True) on positions:
\* stable, so a position goes after every one already placed whose key is
\* not smaller
InserirDesc(ord, p, ests) ==
    LET n == Cardinality({k \in 1..Len(ord) :
                ests[ord[k]].prioridade_contato.v >= ests[p].prioridade_contato.v})
    IN  SubSeq(ord, 1, n) \o <<p>> \o SubSeq(ord, n + 1, Len(ord))

RECURSIVE sorted_reverse(_, _)
sorted_reverse(pos, ests) ==
    IF pos = <<>> THEN <<>>
    ELSE InserirDesc(sorted_reverse(SubSeq(pos, 1, Len(pos) - 1), ests),
                     pos[Len(pos)], ests)

PRIORIDADE_MINIMA == 3

filtrar_por_prioridade_pos(ests, prioridade_minima) ==
    sorted_reverse(
        Posicoes(Len(ests),
            {k \in 1..Len(ests) : ests[k].prioridade_contato.v >= prioridade_minima}),
        ests)

filtrar_por_prioridade(ests, prioridade_minima) ==
    Em(ests, filtrar_por_prioridade_pos(ests, prioridade_minima))

\* mutant of Fatia: s[:limite + 1]
Fatia_mais_um(s, limite) ==
    IF limite + 1 >= 0
    THEN SubSeq(s, 1, IF limite + 1 < Len(s) THEN limite + 1 ELSE Len(s))
    ELSE SubSeq(s, 1, Len(s) + limite + 1)

\* the slice s[:limite]
Fatia(s, limite) ==
    IF limite >= 0
    THEN SubSeq(s, 1, IF limite < Len(s) THEN limite ELSE Len(s))
    ELSE SubSeq(s, 1, Len(s) + limite)

LIMITE == 10

\* listar_proximos_contatos: the positions of `prioritarios`, which it prints
nao_contatados(ests) ==
    Posicoes(Len(ests),
        {k \in 1..Len(ests) : ests[k].status_contato = PyStr(NAO_CONTATADO)})

proximos_contatos_pos(ests, limite) ==
    Fatia(sorted_reverse(nao_contatados(ests), ests), limite)

listar_proximos_contatos(ests, limite) == Em(ests, proximos_contatos_pos(ests, limite))

\* csv.DictWriter: a cell is "" for None, the string itself for a str and
\* str(value) otherwise
csv_celula(x) ==
    CASE x.t = "NoneType" -> [s |-> <<>>]
      [] x.t = "str" -> [s |-> x.v]
      [] x.t = "bool" -> [s |-> IF x.v THEN <<"T", "r", "u", "e">>
                                       ELSE <<"F", "a", "l", "s", "e">>]
      [] OTHER -> [str |-> x.v]

csv_linha(e) == [k \in 1..Len(Campos) |-> csv_celula(e[Campos[k]])]

\* mutant of exportar_para_csv: no guard, so the file is opened for writing
\* before the first record is looked at
exportar_sem_guarda(ests, csv) ==
    IF ests = <<>> THEN Conteudo(<<>>)
    ELSE Conteudo(<<Campos>> \o [k \in 1..Len(ests) |-> csv_linha(ests[k])])

\* exportar_para_csv: the CSV file it leaves (header row, then one row per record)
exportar_para_csv(ests, csv) ==
    IF ests = <<>> THEN csv
    ELSE Conteudo(<<Campos>> \o [k \in 1..Len(ests) |-> csv_linha(ests[k])])

\* exportar_para_csv: the value it returns (a bare return, or none at the end)
exportar_retorno(ests) == IF ests = <<>> THEN PyNone ELSE PyNone

\* exportar_para_csv: what it prints
exportar_saida(ests) == IF ests = <<>> THEN "aviso: nenhum estabelecimento" ELSE "exportados"

\* ---------------------------------------------------------------- inputs
RUA == <<"R", "u", "a">>
CHIADO == <<"C", "h", "i", "a", "d", "o">>
SITE == <<"h", "t", "t", "p">>

\* records a caller of the API builds, as in exemplo_uso
Entradas ==
    {[nome |-> PyStr(<<"O", " ", "F", "a", "d", "o">>), endereco |-> PyStr(RUA),
      bairro |-> PyStr(<<"B", "a", "i", "r", "r", "o">>), tipo_negocio |-> PyStr(BAR),
      tem_site |-> PyBool(FALSE), tem_instagram |-> PyBool(TRUE),
      url_instagram |-> PyStr(<<"@", "f", "a", "d", "o">>),
      nivel_presenca_digital |-> PyStr(BASICA), precisa_site |-> PyBool(TRUE),
      oportunidades |-> PyList(<<PyStr(SITE), PyStr(<<"Q", "R">>)>>),
      observacoes |-> PyStr(<<"f", "i", "l", "a">>),
      potencial_cliente |-> PyStr(ALTO), prioridade_contato |-> PyInt(4)],
     [nome |-> PyStr(CAFE), endereco |-> PyStr(RUA), bairro |-> PyStr(CHIADO),
      tipo_negocio |-> PyStr(CAFE), tem_site |-> PyBool(TRUE),
      url_site |-> PyStr(SITE)]}

\* what the add form holds when it is submitted
FormularioBase ==
    [nome |-> <<>>, endereco |-> RUA, bairro |-> CHIADO, tipo_negocio |-> CAFE,
     aparencia |-> <<>>, movimento |-> <<>>, tem_site |-> FALSE, url_site |-> <<>>,
     tem_instagram |-> FALSE, url_instagram |-> <<>>, tem_facebook |-> FALSE,
     tem_google_business |-> FALSE, nivel_digital |-> BASICA,
     precisa_site |-> FALSE, precisa_sistema_gestao |-> FALSE,
     precisa_marketing |-> FALSE, precisa_reservas |-> FALSE,
     precisa_ecommerce |-> FALSE, oportunidades_text |-> <<<<>>>>,
     observacoes |-> <<>>, potencial |-> ALTO, prioridade |-> 3]

Formularios ==
    {FormularioBase,
     [FormularioBase EXCEPT !.nome = <<"C", "a", "f", "é", " ", "C">>,
        !.prioridade = 5, !.precisa_site = TRUE,
        !.oportunidades_text = <<<<" ", "s", "i", "t", "e", " ">>, <<" ">>>>],
     [FormularioBase EXCEPT !.nome = BAR, !.tipo_negocio = BAR, !.tem_site = TRUE,
        !.url_site = SITE, !.movimento = ALTO, !.prioridade = 1]}

\* oportunidades = [o.strip() for o in oportunidades_text.split("\n") if o.strip()]
oportunidades_de(linhas) ==
    LET limpas == [k \in 1..Len(linhas) |-> strip(linhas[k])]
    IN  Em([k \in 1..Len(limpas) |-> PyStr(limpas[k])],
           Posicoes(Len(limpas), {k \in 1..Len(limpas) : limpas[k] # <<>>}))

ou_None(s) == IF s # <<>> THEN PyStr(s) ELSE PyNone

\* the keyword arguments of Estabelecimento(...) in the form's submit branch
novo_de(f) ==
    [nome |-> PyStr(f.nome), endereco |-> PyStr(f.endereco),
     bairro |-> PyStr(f.bairro), tipo_negocio |-> PyStr(f.tipo_negocio),
     tem_site |-> PyBool(f.tem_site),
     url_site |-> IF f.tem_site THEN PyStr(f.url_site) ELSE PyNone,
     tem_instagram |-> PyBool(f.tem_instagram),
     url_instagram |-> IF f.tem_instagram THEN PyStr(f.url_instagram) ELSE PyNone,
     tem_facebook |-> PyBool(f.tem_facebook),
     tem_google_business |-> PyBool(f.tem_google_business),
     aparencia_estabelecimento |-> ou_None(f.aparencia),
     movimento_aparente |-> ou_None(f.movimento),
     nivel_presenca_digital |-> PyStr(f.nivel_digital),
     precisa_site |-> PyBool(f.precisa_site),
     precisa_sistema_gestao |-> PyBool(f.precisa_sistema_gestao),
     precisa_marketing_digital |-> PyBool(f.precisa_marketing),
     precisa_sistema_reservas |-> PyBool(f.precisa_reservas),
     precisa_ecommerce |-> PyBool(f.precisa_ecommerce),
     oportunidades |-> PyList(oportunidades_de(f.oportunidades_text)),
     observacoes |-> PyStr(f.observacoes),
     potencial_cliente |-> PyStr(f.potencial),
     prioridade_contato |-> PyInt(f.prioridade)]

\* `if not nome or not endereco or not bairro`
formulario_incompleto(f) == f.nome = <<>> \/ f.endereco = <<>> \/ f.bairro = <<>>

\* prioritarios[:20] of the "Próximos Contatos" page
CONTATOS_NA_PAGINA == 20

\* ---------------------------------------------------------------- actions
Chamada(op, i, arg, valor, saida, excecao) ==
    [op |-> op, proc |-> i, arg |-> arg, valor |-> valor, saida |-> saida,
     excecao |-> excecao]

\* the clock readings a construction from kwargs can see
Leituras(le) == IF le THEN relogio..MaxRelogio ELSE {relogio}

PrecisaRelogio(arq) ==
    /\ arq.existe
    /\ \E k \in 1..Len(arq.texto) : LeRelogio(json_load_objeto(arq.texto[k]))

\* SistemaMapeamento(): __init__ sets the fields and calls carregar_dados; an
\* exception leaving the constructor leaves no new object
Construir(i) ==
    \E t \in Leituras(PrecisaRelogio(arquivo)) :
        LET r == carregar_dados(arquivo, t)
        IN  /\ IF r.excecao = ""
               THEN /\ estabelecimentos' = [estabelecimentos EXCEPT ![i] = r.ests]
                    /\ construido' = [construido EXCEPT ![i] = TRUE]
               ELSE UNCHANGED <<estabelecimentos, construido>>
            /\ relogio' = t
            /\ retorno' = Chamada("__init__", i, PyNone, PyNone, r.saida, r.excecao)
            /\ UNCHANGED <<arquivo, arquivo_csv>>

CarregarDados(i) ==
    /\ construido[i]
    /\ \E t \in Leituras(PrecisaRelogio(arquivo)) :
        LET r == carregar_dados(arquivo, t)
        IN  /\ IF r.excecao = ""
               THEN estabelecimentos' = [estabelecimentos EXCEPT ![i] = r.ests]
               ELSE UNCHANGED estabelecimentos
            /\ relogio' = t
            /\ retorno' =
                    Chamada("carregar_dados", i, PyNone, PyNone, r.saida, r.excecao)
            /\ UNCHANGED <<construido, arquivo, arquivo_csv>>

SalvarDados(i) ==
    /\ construido[i]
    /\ arquivo' = salvar_dados(estabelecimentos[i])
    /\ retorno' = Chamada("salvar_dados", i, PyNone, PyNone, "salvos", "")
    /\ UNCHANGED <<estabelecimentos, construido, arquivo_csv, relogio>>

\* a caller builds an Estabelecimento and passes it to adicionar_estabelecimento
Adicionar(i, S) ==
    /\ construido[i]
    /\ Len(estabelecimentos[i]) < MaxEst
    /\ \E kwargs \in S : \E t \in Leituras(LeRelogio(kwargs)) :
        LET e == Estabelecimento(kwargs, t)
        IN  /\ estabelecimentos' =
                    [estabelecimentos EXCEPT
                        ![i] = adicionar_estabelecimento(@, e)]
            /\ relogio' = t
            /\ retorno' =
                    Chamada("adicionar_estabelecimento", i, e, PyNone, "adicionado", "")
    /\ UNCHANGED <<construido, arquivo, arquivo_csv>>

AdicionarEstabelecimento(i) == Adicionar(i, Entradas)

\* the submit branch of the "Adicionar Estabelecimento" form
SubmeterFormulario(i) ==
    /\ construido[i]
    /\ \E f \in Formularios :
        IF formulario_incompleto(f)
        THEN /\ retorno' = Chamada("form_submit", i, f, PyNone,
                                 "erro: campos obrigatorios", "")
             /\ UNCHANGED <<estabelecimentos, arquivo, relogio>>
        ELSE /\ Len(estabelecimentos[i]) < MaxEst
             /\ \E t \in Leituras(LeRelogio(novo_de(f))) :
                 LET novo == Estabelecimento(novo_de(f), t)
                     ests == adicionar_estabelecimento(estabelecimentos[i], novo)
                 IN  /\ estabelecimentos' = [estabelecimentos EXCEPT ![i] = ests]
                     /\ arquivo' = salvar_dados(ests)
                     /\ relogio' = t
                     /\ retorno' = Chamada("form_submit", i, f, PyNone,
                                         "adicionado com sucesso", "")
    /\ UNCHANGED <<construido, arquivo_csv>>

\* mutant of MarcarContatado: the status is set and salvar_dados is not called
MarcarContatado_sem_salvar(i) ==
    /\ construido[i]
    /\ LET prioritarios ==
                sorted_reverse(nao_contatados(estabelecimentos[i]), estabelecimentos[i])
           pagina == Fatia(prioritarios, CONTATOS_NA_PAGINA)
       IN  \E n \in 1..Len(pagina) :
            LET ests == [estabelecimentos[i] EXCEPT
                            ![pagina[n]].status_contato = PyStr(CONTATADO)]
            IN  /\ estabelecimentos' = [estabelecimentos EXCEPT ![i] = ests]
                /\ retorno' = Chamada("marcar_contatado", i, n, PyNone, "", "")
    /\ UNCHANGED <<construido, arquivo, arquivo_csv, relogio>>

\* the "Marcar como Contatado" button of the n-th record shown
MarcarContatado(i) ==
    /\ construido[i]
    /\ LET prioritarios ==
                sorted_reverse(nao_contatados(estabelecimentos[i]), estabelecimentos[i])
           pagina == Fatia(prioritarios, CONTATOS_NA_PAGINA)
       IN  \E n \in 1..Len(pagina) :
            LET ests == [estabelecimentos[i] EXCEPT
                            ![pagina[n]].status_contato = PyStr(CONTATADO)]
            IN  /\ estabelecimentos' = [estabelecimentos EXCEPT ![i] = ests]
                /\ arquivo' = salvar_dados(ests)
                /\ retorno' = Chamada("marcar_contatado", i, n, PyNone, "salvos", "")
    /\ UNCHANGED <<construido, arquivo_csv, relogio>>

ExportarParaCsv(i) ==
    /\ construido[i]
    /\ arquivo_csv' = exportar_para_csv(estabelecimentos[i], arquivo_csv)
    /\ retorno' = Chamada("exportar_para_csv", i, PyNone,
                          exportar_retorno(estabelecimentos[i]),
                          exportar_saida(estabelecimentos[i]), "")
    /\ UNCHANGED <<estabelecimentos, construido, arquivo, relogio>>

\* the "Exportar para CSV" button, shown when the collection is not empty
BotaoExportar(i) ==
    /\ construido[i]
    /\ estabelecimentos[i] # <<>>
    /\ arquivo_csv' = exportar_para_csv(estabelecimentos[i], arquivo_csv)
    /\ retorno' = Chamada("botao_exportar", i, PyNone, PyNone, "sucesso", "")
    /\ UNCHANGED <<estabelecimentos, construido, arquivo, relogio>>

\* ---------------------------------------------------------------- specifications
SemChamada == Chamada("", 0, PyNone, PyNone, "", "")

\* files earlier runs can have left
ArquivosIniciais ==
    {Ausente}
        \cup {Conteudo(json_dump(<<Estabelecimento(kwargs, 1)>>)) : kwargs \in Entradas}

Init ==
    /\ estabelecimentos = [i \in Procs |-> <<>>]
    /\ construido = [i \in Procs |-> FALSE]
    /\ arquivo \in ArquivosIniciais
    /\ arquivo_csv = Ausente
    /\ relogio = 1
    /\ retorno = SemChamada

\* one process calling the store's API
Next ==
    \E i \in {1} :
        \/ Construir(i)
        \/ CarregarDados(i)
        \/ SalvarDados(i)
        \/ AdicionarEstabelecimento(i)
        \/ SubmeterFormulario(i)
        \/ MarcarContatado(i)

Spec == Init /\ [][Next]_vars

\* two dashboard processes on the same backing file
NextConc ==
    \E i \in Procs :
        \/ Construir(i)
        \/ SubmeterFormulario(i)

InitConc == Init /\ arquivo = Ausente

SpecConc == InitConc /\ [][NextConc]_vars

\* one process adding and exporting
NextExport ==
    \E i \in {1} :
        \/ Construir(i)
        \/ AdicionarEstabelecimento(i)
        \/ ExportarParaCsv(i)
        \/ BotaoExportar(i)

SpecExport == Init /\ [][NextExport]_vars

\* ---------------------------------------------------------------- queries
\* collections a store can hold when it is queried
Amostras ==
    {Estabelecimento(kwargs, 1) : kwargs \in
        {[nome |-> PyStr(<<"C", "a", "f", "é", " ", "C">>), endereco |-> PyStr(RUA),
          bairro |-> PyStr(CHIADO), tipo_negocio |-> PyStr(CAFE),
          prioridade_contato |-> PyInt(5)],
         [nome |-> PyStr(<<"B", "A", "R">>), endereco |-> PyStr(RUA),
          bairro |-> PyStr(<<"B", "a", "i", "x", "a">>), tipo_negocio |-> PyStr(BAR),
          tem_site |-> PyBool(TRUE), url_site |-> PyStr(SITE),
          potencial_cliente |-> PyStr(ALTO), prioridade_contato |-> PyInt(3)],
         [nome |-> PyStr(<<"O", " ", "F", "a", "d", "o">>), endereco |-> PyStr(RUA),
          bairro |-> PyStr(CHIADO), tipo_negocio |-> PyStr(BAR),
          prioridade_contato |-> PyInt(3), status_contato |-> PyStr(CONTATADO)],
         [nome |-> PyStr(<<"c", "a", "b", "a", "r", "é">>), endereco |-> PyStr(RUA),
          bairro |-> PyStr(<<"b", "a", "i", "x", "a">>), tipo_negocio |-> PyStr(CAFE),
          tem_site |-> PyBool(TRUE)]}}

RECURSIVE SeqsAte(_, _)
SeqsAte(S, n) ==
    IF n = 0 THEN {<<>>}
    ELSE LET menores == SeqsAte(S, n - 1)
         IN  menores \cup {Append(s, x) : s \in {m \in menores : Len(m) = n - 1}, x \in S}

\* the arguments the queries are called with
Consultas == {<<>>, <<"c", "a">>, <<"B", "A">>, <<"É">>, <<"x">>, CHIADO}
Limiares == {0, PRIORIDADE_MINIMA, 4, 6}
Limites == {-2, -1, 0, 1, 2, LIMITE}

Consulta(i, op, arg, valor, saida) ==
    /\ construido[i]
    /\ retorno' = Chamada(op, i, arg, valor, saida, "")
    /\ UNCHANGED <<estabelecimentos, construido, arquivo, arquivo_csv, relogio>>

BuscarPorNome(i) ==
    \E q \in Consultas :
        Consulta(i, "buscar_por_nome", q,
                 PyList(buscar_por_nome(estabelecimentos[i], q)), "")

BuscarPorBairro(i) ==
    \E q \in Consultas :
        Consulta(i, "buscar_por_bairro", q,
                 PyList(buscar_por_bairro(estabelecimentos[i], q)), "")

BuscarPorTipo(i) ==
    \E q \in Consultas :
        Consulta(i, "buscar_por_tipo", q,
                 PyList(buscar_por_tipo(estabelecimentos[i], q)), "")

FiltrarSemSite(i) ==
    Consulta(i, "filtrar_sem_site", PyNone,
             PyList(filtrar_sem_site(estabelecimentos[i])), "")

FiltrarPorPotencial(i) ==
    \E p \in {PyStr(ALTO)} :
        Consulta(i, "filtrar_por_potencial", p,
                 PyList(filtrar_por_potencial(estabelecimentos[i], p)), "")

FiltrarPorPrioridade(i) ==
    \E m \in Limiares :
        Consulta(i, "filtrar_por_prioridade", m,
                 PyList(filtrar_por_prioridade(estabelecimentos[i], m)), "")

\* listar_proximos_contatos returns None; saida is the list it prints
ListarProximosContatos(i) ==
    \E n \in Limites :
        Consulta(i, "listar_proximos_contatos", n, PyNone,
                 listar_proximos_contatos(estabelecimentos[i], n))

\* a store that loaded a collection, then queried
InitConsulta ==
    /\ \E ests \in SeqsAte(Amostras, MaxAmostra) :
        /\ estabelecimentos = [i \in Procs |-> IF i = 1 THEN ests ELSE <<>>]
        /\ arquivo = IF ests = <<>> THEN Ausente ELSE Conteudo(json_dump(ests))
    /\ construido = [i \in Procs |-> i = 1]
    /\ arquivo_csv = Ausente
    /\ relogio = 1
    /\ retorno = Chamada("__init__", 1, PyNone, PyNone, "carregados", "")

NextConsulta ==
    \E i \in {1} :
        \/ AdicionarEstabelecimento(i)
        \/ BuscarPorNome(i)
        \/ BuscarPorBairro(i)
        \/ BuscarPorTipo(i)
        \/ FiltrarSemSite(i)
        \/ FiltrarPorPotencial(i)
        \/ FiltrarPorPrioridade(i)
        \/ ListarProximosContatos(i)

SpecConsulta == InitConsulta /\ [][NextConsulta]_vars

\* ---------------------------------------------------------------- claims
OpsDeCarga == {"__init__", "carregar_dados"}

\* C1: a non-empty collection that was just saved with salvar_dados and is then
\* loaded (carregar_dados, or a new store on the same file) comes back equal
\* in every field of every record and in the same order.
C1_RoundTrip ==
    [][(/\ retorno.op = "salvar_dados"
        /\ retorno'.op \in OpsDeCarga
        /\ estabelecimentos[retorno.proc] # <<>>)
       => /\ retorno'.excecao = ""
          /\ estabelecimentos'[retorno'.proc] = estabelecimentos[retorno.proc]]_vars

\* a load of a saved file with two different records, one with optional fields
\* unset, read back after the clock moved past a record's timestamp
C1_Witness ==
    /\ retorno.op \in OpsDeCarga
    /\ arquivo = Conteudo(json_dump(estabelecimentos[1]))
    /\ Len(estabelecimentos[1]) = 2
    /\ estabelecimentos[1][1] # estabelecimentos[1][2]
    /\ \E k \in 1..2 : estabelecimentos[1][k].url_site = PyNone
    /\ \E k \in 1..2 : estabelecimentos[1][k].oportunidades.v # <<>>
    /\ \E k \in 1..2 : estabelecimentos[1][k].data_mapeamento.v # strftime(relogio)

\* a form submit that passed, or failed, the mandatory-field test
FormularioAceito(r) == r.op = "form_submit" /\ ~formulario_incompleto(r.arg)
FormularioRecusado(r) == r.op = "form_submit" /\ formulario_incompleto(r.arg)

\* C2: every dashboard action that mutates the collection (a complete add form,
\* "Marcar como Contatado") leaves the backing file holding the serialization
\* of the whole in-memory collection; an incomplete form changes neither.
C2_MutacoesPersistidas ==
    [][/\ (retorno'.op = "marcar_contatado" \/ FormularioAceito(retorno'))
            => /\ arquivo' = Conteudo(json_dump(estabelecimentos'[retorno'.proc]))
               /\ estabelecimentos'[retorno'.proc] # estabelecimentos[retorno'.proc]
       /\ FormularioRecusado(retorno')
            => UNCHANGED <<estabelecimentos, arquivo>>]_vars

\* two records, one of them just marked as contacted, and the file holding both
C2_Witness ==
    /\ retorno.op = "marcar_contatado"
    /\ Len(estabelecimentos[1]) = 2
    /\ \E k \in 1..2 : estabelecimentos[1][k].status_contato = PyStr(CONTATADO)
    /\ \E k \in 1..2 : estabelecimentos[1][k].status_contato = PyStr(NAO_CONTATADO)
    /\ arquivo = Conteudo(json_dump(estabelecimentos[1]))

\* s is t without one or more of its last elements
EhPrefixoProprio(s, t) == Len(s) < Len(t) /\ s = SubSeq(t, 1, Len(s))

\* C4: adicionar_estabelecimento appends the record as the last element and
\* leaves the backing file as it was; a store constructed right after an
\* unsaved add holds the file's records, a proper prefix of the collection
\* the record was added to, so the added record is not in it.
C4_AdicionarNaoPersiste ==
    [][/\ retorno'.op = "adicionar_estabelecimento"
            => /\ estabelecimentos'[retorno'.proc] =
                    Append(estabelecimentos[retorno'.proc], retorno'.arg)
               /\ arquivo' = arquivo
       /\ (retorno.op = "adicionar_estabelecimento" /\ retorno'.op = "__init__")
            => /\ arquivo' = arquivo
               /\ EhPrefixoProprio(estabelecimentos'[retorno'.proc],
                                   estabelecimentos[retorno.proc])]_vars

\* a record was added to a loaded collection and the file does not hold it
C4_Witness ==
    /\ retorno.op = "adicionar_estabelecimento"
    /\ arquivo.existe
    /\ Len(estabelecimentos[1]) = 2
    /\ estabelecimentos[1][2] = retorno.arg
    /\ carregar_dados(arquivo, relogio).ests = <<estabelecimentos[1][1]>>
    /\ estabelecimentos[1][1] # retorno.arg

\* C8: constructing a store, or calling carregar_dados, while the backing file
\* is absent raises nothing, leaves the collection empty and creates no file.
C8_ArquivoAusente ==
    [][(retorno'.op \in OpsDeCarga /\ ~arquivo.existe)
       => /\ retorno'.excecao = ""
          /\ construido'[retorno'.proc]
          /\ estabelecimentos'[retorno'.proc] = <<>>
          /\ ~arquivo'.existe]_vars

\* carregar_dados on an absent file, called on a store that held a record
C8_Witness ==
    /\ retorno.op = "carregar_dados"
    /\ retorno.saida = "nenhum dado anterior"
    /\ ~arquivo.existe
    /\ estabelecimentos[1] = <<>>
    /\ relogio > 1

\* C3: with two processes on one backing file and no locking, a process that
\* adds and saves leaves the file holding exactly its own collection, without
\* any error or message about the other process; whatever the other process
\* holds that the saver does not is absent from the file.
C3_UltimoEscritorVence ==
    [][FormularioAceito(retorno')
       => /\ arquivo' = Conteudo(json_dump(estabelecimentos'[retorno'.proc]))
          /\ retorno'.excecao = ""
          /\ retorno'.saida = "adicionado com sucesso"
          /\ \A j \in Procs \ {retorno'.proc} :
                \A k \in 1..Len(estabelecimentos[j]) :
                    estabelecimentos[j][k] \notin Range(estabelecimentos'[retorno'.proc])
                    => estabelecimentos[j][k] \notin
                            Range(carregar_dados(arquivo', relogio').ests)]_vars

\* a lost update: both processes started on the same absent file, each added
\* and saved, and the file lacks a record the other process saved
C3_Witness ==
    /\ FormularioAceito(retorno)
    /\ \E j \in Procs \ {retorno.proc} :
        /\ construido[j]
        /\ estabelecimentos[j] # <<>>
        /\ \A k \in 1..Len(estabelecimentos[j]) :
                estabelecimentos[j][k] \notin Range(carregar_dados(arquivo, relogio).ests)
    /\ arquivo = Conteudo(json_dump(estabelecimentos[retorno.proc]))
    /\ Len(estabelecimentos[retorno.proc]) = 1

\* C9, as amended: exportar_para_csv on an empty collection writes no file,
\* raises nothing, prints a warning and returns None, the value a successful
\* export returns too; the collection and the backing file are unchanged.
C9_ExportarVazio ==
    [][retorno'.op = "exportar_para_csv"
       => /\ retorno'.valor = PyNone
          /\ estabelecimentos[retorno'.proc] = <<>>
                => /\ arquivo_csv' = arquivo_csv
                   /\ retorno'.excecao = ""
                   /\ retorno'.saida = "aviso: nenhum estabelecimento"
                   /\ UNCHANGED <<estabelecimentos, arquivo>>]_vars

\* an export of an emptied collection that left an earlier export in place
C9_Witness ==
    /\ retorno.op = "exportar_para_csv"
    /\ estabelecimentos[retorno.proc] = <<>>
    /\ retorno.saida = "aviso: nenhum estabelecimento"
    /\ arquivo_csv.existe

\* C9, as claimed: exportar_para_csv on an empty collection writes no file,
\* raises nothing and returns a warning indication to its caller; the
\* collection and the backing file are unchanged.
C9_Original ==
    [][(retorno'.op = "exportar_para_csv" /\ estabelecimentos[retorno'.proc] = <<>>)
       => /\ arquivo_csv' = arquivo_csv
          /\ retorno'.excecao = ""
          /\ retorno'.valor # PyNone
          /\ UNCHANGED <<estabelecimentos, arquivo>>]_vars

\* ---------------------------------------------------------------- claims on queries
\* res holds exactly the records of ests at the positions I, in their order
EhSubsequencia(res, ests, I) ==
    /\ Len(res) = Cardinality(I)
    /\ \A k \in I : res[Cardinality({m \in I : m <= k})] = ests[k]

\* two characters equal up to case
MesmaLetra(a, b) ==
    \/ a = b
    \/ \E k \in 1..Len(Maiusculas) : {a, b} = {Maiusculas[k], Minusculas[k]}

\* q occurs in s as a substring, case ignored
ContemSemCaixa(q, s) ==
    \E d \in 0..(Len(s) - Len(q)) : \A k \in 1..Len(q) : MesmaLetra(q[k], s[d + k])

OpsDeBusca == {"buscar_por_nome", "buscar_por_bairro", "buscar_por_tipo"}

CampoBuscado(e, op) ==
    CASE op = "buscar_por_nome" -> e.nome.v
      [] op = "buscar_por_bairro" -> e.bairro.v
      [] op = "buscar_por_tipo" -> e.tipo_negocio.v

\* C10: each search returns exactly the records whose field contains the query
\* as a case-insensitive substring, in collection order, and on an empty
\* collection an empty result, never an error.
C10_Buscas ==
    retorno.op \in OpsDeBusca
    => LET ests == estabelecimentos[retorno.proc]
       IN  /\ retorno.excecao = ""
           /\ EhSubsequencia(retorno.valor.v, ests,
                {k \in 1..Len(ests) :
                    ContemSemCaixa(retorno.arg, CampoBuscado(ests[k], retorno.op))})
           /\ ests = <<>> => retorno.valor.v = <<>>

\* a search by name that matches two of three records only when case is ignored
C10_Witness ==
    /\ retorno.op = "buscar_por_nome"
    /\ retorno.arg = <<"c", "a">>
    /\ Len(estabelecimentos[retorno.proc]) = 3
    /\ Len(retorno.valor.v) = 2
    /\ retorno.valor.v[1] # retorno.valor.v[2]
    /\ ~Contem(retorno.arg, retorno.valor.v[1].nome.v)
    /\ retorno.valor.v[2] = estabelecimentos[retorno.proc][3]

\* C7: filtrar_sem_site returns exactly the records whose tem_site is False, in
\* collection order; its size plus the number of records whose tem_site is
\* True is the collection's size; a record added with tem_site False is in the
\* result right after the add.
C7_SemSite ==
    LET ests == estabelecimentos[retorno.proc]
    IN  /\ retorno.op = "filtrar_sem_site"
            => /\ EhSubsequencia(retorno.valor.v, ests,
                    {k \in 1..Len(ests) : ests[k].tem_site = PyBool(FALSE)})
               /\ Len(retorno.valor.v)
                    + Cardinality({k \in 1..Len(ests) : ests[k].tem_site = PyBool(TRUE)})
                  = Len(ests)
        /\ (retorno.op = "adicionar_estabelecimento"
                /\ retorno.arg.tem_site = PyBool(FALSE))
            => /\ filtrar_sem_site(ests) # <<>>
               /\ filtrar_sem_site(ests)[Len(filtrar_sem_site(ests))] = retorno.arg

\* the filter applied after an add: the added record is in a result that
\* leaves some record out
C7_Witness ==
    /\ retorno.op = "filtrar_sem_site"
    /\ Len(retorno.valor.v) < Len(estabelecimentos[retorno.proc])
    /\ \E k \in 1..Len(retorno.valor.v) : retorno.valor.v[k] \notin Amostras

\* C6: filtrar_por_prioridade with threshold m returns exactly the records
\* whose priority is >= m, by non-increasing priority, records of equal
\* priority in collection order: the record at position k is returned after
\* those of higher priority and those of equal priority before it.
C6_FiltroPrioridade ==
    retorno.op = "filtrar_por_prioridade"
    => LET ests == estabelecimentos[retorno.proc]
           res == retorno.valor.v
           prio(k) == ests[k].prioridade_contato.v
           I == {k \in 1..Len(ests) : prio(k) >= retorno.arg}
           antes(k) == {m \in I : prio(m) > prio(k) \/ (prio(m) = prio(k) /\ m < k)}
       IN  /\ Len(res) = Cardinality(I)
           /\ \A k \in I : res[Cardinality(antes(k)) + 1] = ests[k]
           /\ \A n \in 1..(Len(res) - 1) :
                res[n].prioridade_contato.v >= res[n + 1].prioridade_contato.v

\* the default threshold on three records: the highest priority moves to the
\* front and two different records of equal priority keep their order
C6_Witness ==
    /\ retorno.op = "filtrar_por_prioridade"
    /\ retorno.arg = PRIORIDADE_MINIMA
    /\ Len(estabelecimentos[retorno.proc]) = 3
    /\ Len(retorno.valor.v) = 3
    /\ retorno.valor.v[1] = estabelecimentos[retorno.proc][2]
    /\ retorno.valor.v[2] = estabelecimentos[retorno.proc][1]
    /\ retorno.valor.v[2] # retorno.valor.v[3]
    /\ retorno.valor.v[2].prioridade_contato = retorno.valor.v[3].prioridade_contato

\* what listar_proximos_contatos must list for limit n
ListaCorreta(ests, res, n) ==
    LET Q == {k \in 1..Len(ests) : ests[k].status_contato = PyStr(NAO_CONTATADO)}
    IN  /\ \A k \in 1..Len(res) :
                /\ res[k].status_contato = PyStr(NAO_CONTATADO)
                /\ res[k] \in Range(ests)
        /\ Len(res) <= n
        /\ \A k \in 1..(Len(res) - 1) :
                res[k].prioridade_contato.v >= res[k + 1].prioridade_contato.v
        /\ Cardinality(Q) < n
            => /\ Len(res) = Cardinality(Q)
               /\ \A k \in Q : ests[k] \in Range(res)

\* C5, as amended: for every limit n >= 0, listar_proximos_contatos lists no
\* record whose status is not "Não contatado", at most n records, by
\* non-increasing priority, and all qualifying records when fewer than n
\* qualify.
C5_ProximosContatos ==
    (retorno.op = "listar_proximos_contatos" /\ retorno.arg >= 0)
    => ListaCorreta(estabelecimentos[retorno.proc], retorno.saida, retorno.arg)

\* a listing cut to one of two qualifying records: the one of higher priority,
\* which is last in the collection; a contacted record is left out
C5_Witness ==
    /\ retorno.op = "listar_proximos_contatos"
    /\ retorno.arg = 1
    /\ Len(estabelecimentos[retorno.proc]) = 3
    /\ estabelecimentos[retorno.proc][2].status_contato = PyStr(CONTATADO)
    /\ retorno.saida = <<estabelecimentos[retorno.proc][3]>>
    /\ estabelecimentos[retorno.proc][1].status_contato = PyStr(NAO_CONTATADO)
    /\ estabelecimentos[retorno.proc][3].prioridade_contato.v
            > estabelecimentos[retorno.proc][1].prioridade_contato.v

\* C5, as claimed: the same for every integer limit n.
C5_Original ==
    retorno.op = "listar_proximos_contatos"
    => ListaCorreta(estabelecimentos[retorno.proc], retorno.saida, retorno.arg)

\* ---------------------------------------------------------------- claims on the store as a whole
\* C11: salvar_dados is idempotent. Right after a salvar_dados the file holds
\* exactly what another salvar_dados of the same collection would write, a
\* salvar_dados that follows a salvar_dados leaves the file as it was, and no
\* salvar_dados changes the collection in memory.
C11_SalvarIdempotente ==
    /\ [](retorno.op = "salvar_dados"
            => salvar_dados(estabelecimentos[retorno.proc]) = arquivo)
    /\ [][/\ retorno'.op = "salvar_dados" => estabelecimentos' = estabelecimentos
          /\ retorno.op = "salvar_dados" /\ retorno'.op = "salvar_dados"
                => arquivo' = arquivo]_vars

\* a collection of two records was saved over a file that held one
C11_Witness ==
    /\ retorno.op = "salvar_dados"
    /\ Len(estabelecimentos[retorno.proc]) = 2
    /\ arquivo = Conteudo(json_dump(estabelecimentos[retorno.proc]))
    /\ relogio = 2

\* ---------------------------------------------------------------- the store called from code
\* keyword arguments a caller of the API can pass: the dataclass takes any int
\* as prioridade_contato
EntradasApi ==
    Entradas
        \cup {[nome |-> PyStr(BAR), endereco |-> PyStr(RUA), bairro |-> PyStr(CHIADO),
               tipo_negocio |-> PyStr(BAR), prioridade_contato |-> PyInt(p)] :
                    p \in {-1, 5, 7}}

AdicionarApi(i) == Adicionar(i, EntradasApi)

\* one process constructing records, adding, loading and saving
NextApi ==
    \E i \in {1} :
        \/ Construir(i)
        \/ CarregarDados(i)
        \/ SalvarDados(i)
        \/ AdicionarApi(i)

SpecApi == Init /\ [][NextApi]_vars

\* C12, as claimed: in every reachable state every record of every collection
\* has prioridade_contato in 0..5.  Violated: Estabelecimento and
\* adicionar_estabelecimento accept any integer, and so do salvar_dados and
\* carregar_dados.
C12_Original ==
    \A i \in Procs : \A k \in 1..Len(estabelecimentos[i]) :
        estabelecimentos[i][k].prioridade_contato.v \in 0..5

\* ---------------------------------------------------------------- report
\* f"{x/total*100:.1f}", in tenths of a percent.  The format rounds to the
\* nearest tenth; a tie needs total to be a multiple of 16, which no collection
\* here reaches
pct(x, total) == (2000 * x + total) \div (2 * total)

\* tipos[e.tipo_negocio] after the loop, for the record at position k
contagem_tipo(ests, k) ==
    Cardinality({j \in 1..Len(ests) : ests[j].tipo_negocio = ests[k].tipo_negocio})

\* the keys of the dict tipos in insertion order, each as the position of the
\* first record of that type
chaves_tipos(ests) ==
    Posicoes(Len(ests),
        {k \in 1..Len(ests) :
            \A j \in 1..(k - 1) : ests[j].tipo_negocio # ests[k].tipo_negocio})

\* sorted(tipos.items(), key=lambda x: x[1], reverse=True): stable
InserirPorContagem(ord, p, ests) ==
    LET n == Cardinality({k \in 1..Len(ord) :
                contagem_tipo(ests, ord[k]) >= contagem_tipo(ests, p)})
    IN  SubSeq(ord, 1, n) \o <<p>> \o SubSeq(ord, n + 1, Len(ord))

RECURSIVE sorted_por_contagem(_, _)
sorted_por_contagem(pos, ests) ==
    IF pos = <<>> THEN <<>>
    ELSE InserirPorContagem(sorted_por_contagem(SubSeq(pos, 1, Len(pos) - 1), ests),
                            pos[Len(pos)], ests)

\* the collection gerar_relatorio reports on
relatorio_escopo(ests, bairro) ==
    IF Truthy(bairro) THEN buscar_por_bairro(ests, bairro.v) ELSE ests

\* what gerar_relatorio prints; it returns None
gerar_relatorio(ests, bairro) ==
    LET escopo == relatorio_escopo(ests, bairro)
        total == Len(escopo)
        sem_site == Len(filtrar_sem_site(escopo))
        sem_instagram ==
            Cardinality({k \in 1..total : ~Truthy(escopo[k].tem_instagram)})
        alta_prioridade ==
            Cardinality({k \in 1..total : escopo[k].prioridade_contato.v >= 4})
        ord == sorted_por_contagem(chaves_tipos(escopo), escopo)
    IN  IF escopo = <<>>
        THEN [aviso |-> TRUE]
        ELSE [aviso |-> FALSE,
              bairro |-> IF Truthy(bairro) THEN bairro ELSE PyNone,
              total |-> total,
              sem_site |-> <<sem_site, pct(sem_site, total)>>,
              sem_instagram |-> <<sem_instagram, pct(sem_instagram, total)>>,
              alta_prioridade |-> <<alta_prioridade, pct(alta_prioridade, total)>>,
              tipos |-> [k \in 1..Len(ord) |->
                            <<escopo[ord[k]].tipo_negocio.v,
                              contagem_tipo(escopo, ord[k])>>]]

\* the neighbourhoods a report is asked for: none, "", one some records are in
Bairros == {PyNone, PyStr(<<>>), PyStr(CHIADO), PyStr(<<"x">>)}

\* mutant of GerarRelatorio: `self.estabelecimentos = self.buscar_por_bairro(bairro)`
GerarRelatorio_no_atributo(i) ==
    /\ construido[i]
    /\ \E b \in Bairros :
        /\ estabelecimentos' =
                [estabelecimentos EXCEPT ![i] = relatorio_escopo(@, b)]
        /\ retorno' = Chamada("gerar_relatorio", i, b, PyNone,
                              gerar_relatorio(estabelecimentos[i], b), "")
    /\ UNCHANGED <<construido, arquivo, arquivo_csv, relogio>>

GerarRelatorio(i) ==
    \E b \in Bairros :
        Consulta(i, "gerar_relatorio", b, PyNone,
                 gerar_relatorio(estabelecimentos[i], b))

\* records a caller builds with data_mapeamento given, as a migration of
\* earlier notes does
EntradasDatadas ==
    {[data_mapeamento |-> PyStr(strftime(1))] @@ kwargs : kwargs \in Entradas}

AdicionarDatado(i) == Adicionar(i, EntradasDatadas)

\* one store instance, constructed on whatever file was there, then used
InitInstancia ==
    /\ arquivo \in ArquivosIniciais
    /\ estabelecimentos =
            [i \in Procs |-> IF i = 1 THEN carregar_dados(arquivo, 1).ests ELSE <<>>]
    /\ construido = [i \in Procs |-> i = 1]
    /\ arquivo_csv = Ausente
    /\ relogio = 1
    /\ retorno = Chamada("__init__", 1, PyNone, PyNone,
                         carregar_dados(arquivo, 1).saida, "")

NextInstancia ==
    \E i \in {1} :
        \/ AdicionarDatado(i)
        \/ SalvarDados(i)
        \/ BuscarPorNome(i)
        \/ BuscarPorBairro(i)
        \/ BuscarPorTipo(i)
        \/ FiltrarSemSite(i)
        \/ FiltrarPorPotencial(i)
        \/ FiltrarPorPrioridade(i)
        \/ GerarRelatorio(i)
        \/ ExportarParaCsv(i)
        \/ ListarProximosContatos(i)

SpecInstancia == InitInstancia /\ [][NextInstancia]_vars

EhPrefixo(s, t) == Len(s) <= Len(t) /\ SubSeq(t, 1, Len(s)) = s

\* C13: there is no delete.  Over adicionar_estabelecimento, salvar_dados, the
\* searches, the filters, gerar_relatorio, exportar_para_csv and
\* listar_proximos_contatos on one store, every step leaves the previous
\* collection as a prefix of the new one, and every step that is not an
\* adicionar_estabelecimento leaves the collection as it was.
C13_SomenteAnexa ==
    [][/\ \A i \in Procs : EhPrefixo(estabelecimentos[i], estabelecimentos'[i])
       /\ retorno'.op # "adicionar_estabelecimento"
            => estabelecimentos' = estabelecimentos]_vars

\* a report scoped to a neighbourhood that holds one of the two records was
\* printed after the collection had grown, been saved and been exported
C13_Witness ==
    /\ retorno.op = "gerar_relatorio"
    /\ Len(estabelecimentos[retorno.proc]) = 2
    /\ Truthy(retorno.arg)
    /\ ~retorno.saida.aviso
    /\ retorno.saida.total = 1
    /\ arquivo = Conteudo(json_dump(estabelecimentos[retorno.proc]))
    /\ arquivo_csv.existe
    /\ Len(arquivo_csv.texto) > 2

====
